---- MODULE Spec2Model ----
(***************************************************************************)
(* Model of pydcop/commands/agent.py: the `pydcop agent` command.          *)
(*                                                                         *)
(*   run_cmd        the supervisory thread (parse the orchestrator address,*)
(*                  launch, join, cooldown, relaunch)                      *)
(*   start_agents   the launcher called by run_cmd (one agent per name)    *)
(*   on_force_exit  the force-exit callback, running concurrently with     *)
(*                  run_cmd (it may be delivered at any point of run_cmd)  *)
(*   agents         threads started by start(); each one terminates on its *)
(*                  own or after stop()                                    *)
(*                                                                         *)
(* An optional Python value (None or an int) is a sequence of length 0 or  *)
(* 1: <<>> is None, <<v>> is the int v.                                    *)
(***************************************************************************)
EXTENDS Integers, Sequences, FiniteSets, TLC

\* ------------------------------------------------------------------ bounds
\* longest name list given to --names
MaxNames == 2
\* number of start_agents calls a behaviour may make (restart loop rounds)
MaxLaunch == 2
\* number of deliveries of the force-exit callback in a behaviour
MaxForce == 2

\* ------------------------------------------------------------------ inputs
AgentNames == {"a1", "a2"}

RECURSIVE SeqsUpTo(_, _)
\* all sequences over S of length 1..n
SeqsUpTo(S, n) ==
    IF n = 0 THEN {}
    ELSE LET shorter == SeqsUpTo(S, n - 1)
         IN  {<<x>> : x \in S} \cup {Append(s, x) : s \in shorter, x \in S}

NameLists == SeqsUpTo(AgentNames, MaxNames)

\* values of --port
BasePorts == {9001}
\* values of --uiport: absent, or an int
UiPorts == {<<>>, <<10001>>}
\* the wider values of --port and --uiport the launcher is checked on
LaunchBasePorts == {0, 9001, 65535}
LaunchUiPorts == {<<>>, <<-1>>, <<0>>, <<1>>, <<10001>>}
\* values of --orchestrator, as character sequences
OrchTokens == { <<"h", ":", "9">>, <<"h", "9">>, <<"h", ":", "9", ":", "9">>,
                <<"h", ":">>, <<"h", ":", "h">> }

VARIABLES
    args,            \* the parsed command line (read-only)
    force_stopped,   \* module global, line 133
    agents,          \* module global, line 134: sequence of handle ids
    handles,         \* the OrchestratedAgent objects built so far
    pc,              \* position of run_cmd
    o,               \* run_cmd local: <<o_addr, o_port>> once line 174 ran
    j,               \* run_cmd local: index of the join loop, line 182
    started_agents,  \* start_agents local, line 232
    i,               \* start_agents local: index of the for loop, line 233
    a_port,          \* start_agents parameter, incremented at line 250
    u_port,          \* start_agents parameter, incremented at line 252
    launches,        \* number of start_agents calls begun
    sleeps,          \* number of sleep(10) calls completed
    fpc,             \* position of on_force_exit
    f_list,          \* on_force_exit: the list object its for loop iterates
    f_i,             \* on_force_exit: index of its for loop
    f_calls,         \* number of deliveries of on_force_exit so far
    f_live,          \* agents running at the instant of the last delivery
    f_prev           \* the list the delivery before the last one iterated

vars == <<args, force_stopped, agents, handles, pc, o, j, started_agents, i,
          a_port, u_port, launches, sleeps, fpc, f_list, f_i, f_calls, f_live,
          f_prev>>

runVars == <<pc, o, j, launches, sleeps>>
saVars == <<started_agents, i, a_port, u_port>>
forceVars == <<fpc, f_list, f_i, f_calls, f_live, f_prev>>

\* ------------------------------------------------------- Python primitives
RECURSIVE Split(_, _)
\* str.split(sep): the parts of s between the occurrences of sep
Split(s, sep) ==
    IF s = <<>> THEN << <<>> >>
    ELSE LET rest == Split(Tail(s), sep)
         IN  IF Head(s) = sep
             THEN << <<>> >> \o rest
             ELSE << <<Head(s)>> \o rest[1] >> \o Tail(rest)

Digits == {"0", "1", "2", "3", "4", "5", "6", "7", "8", "9"}

\* int(s) returns (does not raise ValueError) on a non-empty digit string
IntParses(s) == s # <<>> /\ \A k \in 1..Len(s) : s[k] \in Digits

\* Python truth value of an optional int: None and 0 are false
Truthy(x) == x # <<>> /\ x[1] # 0

\* u_port += 1 on an int
Incr(x) == <<x[1] + 1>>

Running == {h \in 1..Len(handles) : handles[h].state = "running"}

\* ------------------------------------------------------------------- Init
InitArgs(ports, uiports) ==
    /\ args \in [orchestrator : OrchTokens, names : NameLists,
                 restart : BOOLEAN, uiport : uiports, port : ports]
    /\ force_stopped = FALSE
    /\ agents = <<>>
    /\ handles = <<>>
    /\ pc = "parse"
    /\ o = <<>>
    /\ j = 0
    /\ started_agents = <<>>
    /\ i = 0
    /\ a_port = 0
    /\ u_port = <<>>
    /\ launches = 0
    /\ sleeps = 0
    /\ fpc = "idle"
    /\ f_list = <<>>
    /\ f_i = 0
    /\ f_calls = 0
    /\ f_live = {}
    /\ f_prev = <<>>

Init == InitArgs(BasePorts, UiPorts)

LaunchInit == InitArgs(LaunchBasePorts, LaunchUiPorts)

\* ---------------------------------------------------------------- run_cmd
\* lines 174-176 with the parts after the second one dropped
RunParse_Lenient ==
    /\ pc = "parse"
    /\ LET parts == Split(args.orchestrator, ":")
       IN  /\ Len(parts) >= 2
           /\ o' = <<parts[1], parts[2]>>
           /\ pc' = IF args.restart THEN "while" ELSE "call"
    /\ UNCHANGED <<args, force_stopped, agents, handles, j, launches, sleeps,
                   saVars, forceVars>>

\* lines 174-176: o_addr, o_port = args.orchestrator.split(':')
RunParse ==
    /\ pc = "parse"
    /\ LET parts == Split(args.orchestrator, ":")
       IN  /\ Len(parts) = 2
           /\ o' = parts
           /\ pc' = IF args.restart THEN "while" ELSE "call"
    /\ UNCHANGED <<args, force_stopped, agents, handles, j, launches, sleeps,
                   saVars, forceVars>>

\* line 174: the tuple unpacking raises ValueError unless split gives 2 parts
RunParseRaises ==
    /\ pc = "parse"
    /\ Len(Split(args.orchestrator, ":")) # 2
    /\ pc' = "raised"
    /\ UNCHANGED <<args, force_stopped, agents, handles, o, j, launches,
                   sleeps, saVars, forceVars>>

\* line 177 as `while True`
RunWhile_NoCheck ==
    /\ pc = "while"
    /\ pc' = "call"
    /\ UNCHANGED <<args, force_stopped, agents, handles, o, j, launches,
                   sleeps, saVars, forceVars>>

\* line 177 with the flag cleared once it has been read
RunWhile_ResetsFlag ==
    /\ pc = "while"
    /\ pc' = IF force_stopped THEN "done" ELSE "call"
    /\ force_stopped' = FALSE
    /\ UNCHANGED <<args, agents, handles, o, j, launches, sleeps, saVars,
                   forceVars>>

\* line 177: while not force_stopped
RunWhile ==
    /\ pc = "while"
    /\ pc' = IF force_stopped THEN "done" ELSE "call"
    /\ UNCHANGED <<args, force_stopped, agents, handles, o, j, launches,
                   sleeps, saVars, forceVars>>

\* lines 178-179 with the ports of a relaunch carried on from the launch
\* before it
RunCallStartAgents_KeepPorts ==
    /\ pc = "call"
    /\ IntParses(o[2])
    /\ launches < MaxLaunch
    /\ launches' = launches + 1
    /\ started_agents' = <<>>
    /\ i' = 1
    /\ a_port' = IF launches = 0 THEN args.port ELSE a_port
    /\ u_port' = IF launches = 0 THEN args.uiport ELSE u_port
    /\ pc' = "sa_for"
    /\ UNCHANGED <<args, force_stopped, agents, handles, o, j, sleeps,
                   forceVars>>

\* lines 178-179 / 191-192: the arguments are evaluated and start_agents is
\* entered (line 232: started_agents = [])
RunCallStartAgents ==
    /\ pc = "call"
    /\ IntParses(o[2])
    /\ launches < MaxLaunch
    /\ launches' = launches + 1
    /\ started_agents' = <<>>
    /\ i' = 1
    /\ a_port' = args.port
    /\ u_port' = args.uiport
    /\ pc' = "sa_for"
    /\ UNCHANGED <<args, force_stopped, agents, handles, o, j, sleeps,
                   forceVars>>

\* lines 178 / 191: int(o_port) raises ValueError
RunIntRaises ==
    /\ pc = "call"
    /\ ~IntParses(o[2])
    /\ pc' = "raised"
    /\ UNCHANGED <<args, force_stopped, agents, handles, o, j, launches,
                   sleeps, saVars, forceVars>>

\* ----------------------------------------------------------- start_agents
\* lines 233-246: the next name is taken and its agent is constructed
SAConstruct ==
    /\ pc = "sa_for"
    /\ i <= Len(args.names)
    /\ handles' = Append(handles,
                     [name |-> args.names[i], port |-> a_port,
                      ui_port |-> u_port, state |-> "created",
                      starts |-> 0, stops |-> 0, joins |-> 0,
                      cohort |-> launches, pos |-> i])
    /\ pc' = "sa_start"
    /\ UNCHANGED <<args, force_stopped, agents, o, j, launches, sleeps,
                   saVars, forceVars>>

\* lines 243-246: a constructor raises (e.g. the port cannot be bound)
SAConstructRaises ==
    /\ pc = "sa_for"
    /\ i <= Len(args.names)
    /\ pc' = "raised"
    /\ UNCHANGED <<args, force_stopped, agents, handles, o, j, launches,
                   sleeps, saVars, forceVars>>

\* lines 248-252 with a_port left as it is
SAStart_NoPortIncr ==
    /\ pc = "sa_start"
    /\ LET h == Len(handles)
       IN  /\ handles' = [handles EXCEPT ![h].state = "running",
                                         ![h].starts = @ + 1]
           /\ started_agents' = Append(started_agents, h)
    /\ u_port' = IF Truthy(u_port) THEN Incr(u_port) ELSE u_port
    /\ i' = i + 1
    /\ pc' = "sa_for"
    /\ UNCHANGED <<args, force_stopped, agents, o, j, launches, sleeps,
                   a_port, forceVars>>

\* lines 248-252 with the handle not appended
SAStart_NoAppend ==
    /\ pc = "sa_start"
    /\ LET h == Len(handles)
       IN  /\ handles' = [handles EXCEPT ![h].state = "running",
                                         ![h].starts = @ + 1]
    /\ a_port' = a_port + 1
    /\ u_port' = IF Truthy(u_port) THEN Incr(u_port) ELSE u_port
    /\ i' = i + 1
    /\ pc' = "sa_for"
    /\ UNCHANGED <<args, force_stopped, agents, o, j, launches, sleeps,
                   started_agents, forceVars>>

\* lines 248-252 with the agent appended to the global list as well
SAStart_AppendsGlobal ==
    /\ pc = "sa_start"
    /\ LET h == Len(handles)
       IN  /\ handles' = [handles EXCEPT ![h].state = "running",
                                         ![h].starts = @ + 1]
           /\ started_agents' = Append(started_agents, h)
           /\ agents' = Append(agents, h)
    /\ a_port' = a_port + 1
    /\ u_port' = IF Truthy(u_port) THEN Incr(u_port) ELSE u_port
    /\ i' = i + 1
    /\ pc' = "sa_for"
    /\ UNCHANGED <<args, force_stopped, o, j, launches, sleeps, forceVars>>

\* lines 248-252: agent.start(); started_agents.append(agent); a_port += 1;
\* if u_port: u_port += 1
SAStart ==
    /\ pc = "sa_start"
    /\ LET h == Len(handles)
       IN  /\ handles' = [handles EXCEPT ![h].state = "running",
                                         ![h].starts = @ + 1]
           /\ started_agents' = Append(started_agents, h)
    /\ a_port' = a_port + 1
    /\ u_port' = IF Truthy(u_port) THEN Incr(u_port) ELSE u_port
    /\ i' = i + 1
    /\ pc' = "sa_for"
    /\ UNCHANGED <<args, force_stopped, agents, o, j, launches, sleeps,
                   forceVars>>

\* line 248 with the agents started so far stored as the current cohort
SAStartRaises_StoresPartial ==
    /\ pc = "sa_start"
    /\ pc' = "raised"
    /\ agents' = started_agents
    /\ UNCHANGED <<args, force_stopped, handles, o, j, launches, sleeps,
                   saVars, forceVars>>

\* line 248 with the agents started so far stopped before the error leaves
SAStartRaises_RollsBack ==
    /\ pc = "sa_start"
    /\ pc' = "raised"
    /\ handles' = [h \in 1..Len(handles) |->
                     IF \E k \in 1..Len(started_agents) : started_agents[k] = h
                     THEN [handles[h] EXCEPT !.stops = @ + 1]
                     ELSE handles[h]]
    /\ UNCHANGED <<args, force_stopped, agents, o, j, launches, sleeps,
                   saVars, forceVars>>

\* line 248: agent.start() raises
SAStartRaises ==
    /\ pc = "sa_start"
    /\ pc' = "raised"
    /\ UNCHANGED <<args, force_stopped, agents, handles, o, j, launches,
                   sleeps, saVars, forceVars>>

\* lines 253-254 with the join loop entered in both modes
SAReturn_AlwaysJoins ==
    /\ pc = "sa_for"
    /\ i > Len(args.names)
    /\ agents' = started_agents
    /\ j' = 1
    /\ pc' = "join"
    /\ UNCHANGED <<args, force_stopped, handles, o, launches, sleeps,
                   saVars, forceVars>>

\* lines 253-254 and the assignment of lines 178 / 191:
\* agents = the list start_agents returns
SAReturn ==
    /\ pc = "sa_for"
    /\ i > Len(args.names)
    /\ agents' = started_agents
    /\ j' = 1
    /\ pc' = IF args.restart THEN "join" ELSE "done"
    /\ UNCHANGED <<args, force_stopped, handles, o, launches, sleeps,
                   saVars, forceVars>>

\* ------------------------------------------------- run_cmd, after a launch
\* lines 182-183 with join() returning at once
RunJoin_NoWait ==
    /\ pc = "join"
    /\ j <= Len(agents)
    /\ handles' = [handles EXCEPT ![agents[j]].joins = @ + 1]
    /\ j' = j + 1
    /\ UNCHANGED <<args, force_stopped, agents, pc, o, launches, sleeps,
                   saVars, forceVars>>

\* lines 182-183: agent.join() returns once the agent has terminated
RunJoin ==
    /\ pc = "join"
    /\ j <= Len(agents)
    /\ handles[agents[j]].state = "terminated"
    /\ handles' = [handles EXCEPT ![agents[j]].joins = @ + 1]
    /\ j' = j + 1
    /\ UNCHANGED <<args, force_stopped, agents, pc, o, launches, sleeps,
                   saVars, forceVars>>

\* lines 184-187 without the break of lines 185-186
RunAllStopped_NoBreak ==
    /\ pc = "join"
    /\ j > Len(agents)
    /\ pc' = "sleep"
    /\ UNCHANGED <<args, force_stopped, agents, handles, o, j, launches,
                   sleeps, saVars, forceVars>>

\* lines 184-187 reached as soon as one join() has returned
RunAllStopped_AfterFirstJoin ==
    /\ pc = "join"
    /\ j > 1
    /\ pc' = IF force_stopped THEN "done" ELSE "sleep"
    /\ UNCHANGED <<args, force_stopped, agents, handles, o, j, launches,
                   sleeps, saVars, forceVars>>

\* lines 184-187: 'All agents have stopped'; if force_stopped: break
RunAllStopped ==
    /\ pc = "join"
    /\ j > Len(agents)
    /\ pc' = IF force_stopped THEN "done" ELSE "sleep"
    /\ UNCHANGED <<args, force_stopped, agents, handles, o, j, launches,
                   sleeps, saVars, forceVars>>

\* line 188: sleep(10) returns
RunSleep ==
    /\ pc = "sleep"
    /\ sleeps' = sleeps + 1
    /\ pc' = "while"
    /\ UNCHANGED <<args, force_stopped, agents, handles, o, j, launches,
                   saVars, forceVars>>

\* ---------------------------------------------------------- on_force_exit
\* lines 195-198 with the flag toggled instead of set
ForceSetFlag_Toggles ==
    /\ fpc = "idle"
    /\ f_calls < MaxForce
    /\ f_calls' = f_calls + 1
    /\ force_stopped' = ~force_stopped
    /\ f_live' = Running
    /\ fpc' = "for"
    /\ UNCHANGED <<args, agents, handles, runVars, saVars, f_list, f_i,
                   f_prev>>

\* lines 195-198: the callback is delivered; force_stopped = True
ForceSetFlag ==
    /\ fpc = "idle"
    /\ f_calls < MaxForce
    /\ f_calls' = f_calls + 1
    /\ force_stopped' = TRUE
    /\ f_live' = Running
    /\ fpc' = "for"
    /\ UNCHANGED <<args, agents, handles, runVars, saVars, f_list, f_i,
                   f_prev>>

\* line 199: for agent in agents -- the global is read once
ForceIter ==
    /\ fpc = "for"
    /\ f_list' = agents
    /\ f_prev' = f_list
    /\ f_i' = 1
    /\ fpc' = "stop"
    /\ UNCHANGED <<args, force_stopped, agents, handles, runVars, saVars,
                   f_calls, f_live>>

\* line 200 with the loop skipping the handle after the one it stops
ForceStop_SkipsNext ==
    /\ fpc = "stop"
    /\ f_i <= Len(f_list)
    /\ handles' = [handles EXCEPT ![f_list[f_i]].stops = @ + 1]
    /\ f_i' = f_i + 2
    /\ UNCHANGED <<args, force_stopped, agents, runVars, saVars, fpc, f_list,
                   f_calls, f_live, f_prev>>

\* line 200: agent.stop()
ForceStop ==
    /\ fpc = "stop"
    /\ f_i <= Len(f_list)
    /\ handles' = [handles EXCEPT ![f_list[f_i]].stops = @ + 1]
    /\ f_i' = f_i + 1
    /\ UNCHANGED <<args, force_stopped, agents, runVars, saVars, fpc, f_list,
                   f_calls, f_live, f_prev>>

\* line 200 followed by the global list being emptied
ForceReturn_ClearsAgents ==
    /\ fpc = "stop"
    /\ f_i > Len(f_list)
    /\ fpc' = "idle"
    /\ agents' = <<>>
    /\ UNCHANGED <<args, force_stopped, handles, runVars, saVars,
                   f_list, f_i, f_calls, f_live, f_prev>>

\* line 200: the loop is exhausted, on_force_exit returns
ForceReturn ==
    /\ fpc = "stop"
    /\ f_i > Len(f_list)
    /\ fpc' = "idle"
    /\ UNCHANGED <<args, force_stopped, agents, handles, runVars, saVars,
                   f_list, f_i, f_calls, f_live, f_prev>>

\* ----------------------------------------------------------------- agents
\* the thread of a started agent ends (stop() was requested, or on its own:
\* the orchestrator ended the run, a communication failure, ...)
AgentTerminates(h) ==
    /\ h \in 1..Len(handles)
    /\ handles[h].state = "running"
    /\ handles' = [handles EXCEPT ![h].state = "terminated"]
    /\ UNCHANGED <<args, force_stopped, agents, runVars, saVars, forceVars>>

\* an agent that received stop() ends
StoppedAgentTerminates(h) ==
    /\ h \in 1..Len(handles)
    /\ handles[h].stops > 0
    /\ AgentTerminates(h)

MaxHandles == MaxNames * MaxLaunch

RunCmd ==
    \/ RunParse
    \/ RunParseRaises
    \/ RunWhile
    \/ RunCallStartAgents
    \/ RunIntRaises
    \/ SAConstruct
    \/ SAConstructRaises
    \/ SAStart
    \/ SAStartRaises
    \/ SAReturn
    \/ RunJoin
    \/ RunAllStopped
    \/ RunSleep

OnForceExit ==
    \/ ForceSetFlag
    \/ ForceIter
    \/ ForceStop
    \/ ForceReturn

Next ==
    \/ RunCmd
    \/ OnForceExit
    \/ \E h \in 1..MaxHandles : AgentTerminates(h)

Spec == Init /\ [][Next]_vars

\* ---------------------------------------------------------- specifications
\* the launch path of run_cmd alone: no force exit, no agent ends
Launch ==
    \/ RunParse
    \/ RunParseRaises
    \/ RunWhile
    \/ RunCallStartAgents
    \/ RunIntRaises
    \/ SAConstruct
    \/ SAConstructRaises
    \/ SAStart
    \/ SAStartRaises
    \/ SAReturn

LaunchSpec == LaunchInit /\ [][Launch]_vars

\* run_cmd and the agents, on_force_exit never delivered
NoForce ==
    \/ RunCmd
    \/ \E h \in 1..MaxHandles : AgentTerminates(h)

\* the supervisory thread keeps running
NoForceSpec == Init /\ [][NoForce]_vars /\ WF_vars(RunCmd)

\* the supervisory thread keeps running, a delivered on_force_exit runs to
\* its end, and an agent that received stop() ends; the delivery of
\* on_force_exit and the end of an agent on its own are not forced
FairSpec ==
    /\ Spec
    /\ WF_vars(RunCmd)
    /\ WF_vars(ForceIter \/ ForceStop \/ ForceReturn)
    /\ \A h \in 1..MaxHandles : WF_vars(StoppedAgentTerminates(h))

\* ------------------------------------------------------------------ claims
Handles == 1..Len(handles)

\* the launcher is between its entry and its return
Launching == pc \in {"sa_for", "sa_start"}

\* the launcher is at its return statement, every name done
AtReturn == pc = "sa_for" /\ i > Len(args.names)

\* every agent that was ever start()-ed has terminated
AllStartedTerminated ==
    \A h \in Handles : handles[h].starts > 0 => handles[h].state = "terminated"

\* number of positions of the sequence s that hold x
Count(x, s) == Cardinality({k \in 1..Len(s) : s[k] = x})

\* C1: once force_stopped is true, no call of start_agents begins and no
\* agent is start()-ed, wherever in the supervisory cycle on_force_exit was
\* delivered.
C1_NoLaunchAfterForceStop ==
    [][force_stopped =>
          /\ launches' = launches
          /\ \A h \in Handles : handles'[h].starts = handles[h].starts]_vars

\* C2: when a delivery of on_force_exit has finished its loop, every agent
\* that was running at the instant of the delivery has received stop() from
\* it exactly once.
C2_EveryRunningAgentStopped ==
    (fpc = "stop" /\ f_i > Len(f_list)) =>
        \A h \in f_live : Count(h, f_list) = 1

\* C3: with restart enabled, after a single force exit every agent ever
\* started eventually has terminated and run_cmd has returned (a launch that
\* raised, a second force exit, or the launch bound of the model, ends the
\* obligation).
C3_ForceStopConverges ==
    (args.restart /\ f_calls = 1) ~>
        \/ pc = "done" /\ AllStartedTerminated
        \/ pc = "raised"
        \/ f_calls > 1
        \/ pc = "call" /\ launches = MaxLaunch

\* C4: with restart enabled, while cohort k+1 is being launched every agent
\* of the cohorts before it has terminated and has been joined, and agents
\* of two different cohorts never run at the same time.
C4_CohortsDoNotOverlap ==
    args.restart =>
        /\ Launching =>
             \A h \in Handles :
                handles[h].cohort < launches =>
                    handles[h].state = "terminated" /\ handles[h].joins = 1
        /\ \A g, h \in Running : handles[g].cohort = handles[h].cohort

C4_Witness ==
    /\ args.restart
    /\ pc = "sa_start"
    /\ launches = 2
    /\ Len(args.names) = 2

\* C5: the agent at zero-based position k of the name list is bound to
\* message port p + k; the ports of one launch are strictly increasing in
\* list order and pairwise distinct.
C5_MessagePorts ==
    Launching =>
        /\ \A k \in 1..Len(started_agents) :
              handles[started_agents[k]].port = args.port + (k - 1)
        /\ pc = "sa_start" =>
              handles[Len(handles)].port = args.port + Len(started_agents)
        /\ \A k, l \in 1..Len(started_agents) :
              k < l => handles[started_agents[k]].port
                          < handles[started_agents[l]].port

C5_Witness ==
    /\ AtReturn
    /\ Len(started_agents) = 2
    /\ args.port = 65535

\* C6: with a base UI port u (any int) the agent at zero-based position k
\* receives UI port u + k; with no base UI port every agent has none.
C6_UiPorts ==
    Launching =>
        \A k \in 1..Len(started_agents) :
            handles[started_agents[k]].ui_port =
                IF args.uiport = <<>> THEN <<>>
                ELSE <<args.uiport[1] + (k - 1)>>

\* C7: when start_agents returns, its list holds one handle per name, the
\* k-th built for the k-th name, each start()-ed exactly once, and the
\* handles are pairwise distinct (also for duplicate names).
C7_LaunchedCohort ==
    AtReturn =>
        /\ Len(started_agents) = Len(args.names)
        /\ \A k \in 1..Len(started_agents) :
              LET h == started_agents[k]
              IN  /\ handles[h].name = args.names[k]
                  /\ handles[h].cohort = launches
                  /\ handles[h].starts = 1
                  /\ handles[h].state \in {"running", "terminated"}
        /\ \A k, l \in 1..Len(started_agents) :
              k # l => started_agents[k] # started_agents[l]

C7_Witness ==
    /\ AtReturn
    /\ args.names = <<"a1", "a1">>
    /\ Len(started_agents) = 2

\* C8: with restart disabled run_cmd calls start_agents once, stores its
\* result in agents and returns; it joins no agent and never sleeps,
\* whether or not an agent has terminated.
C8_NoRestartReturns ==
    ~args.restart =>
        /\ launches <= 1
        /\ sleeps = 0
        /\ \A h \in Handles : handles[h].joins = 0
        /\ pc \notin {"while", "join", "sleep"}
        /\ pc = "done" =>
              /\ launches = 1
              /\ agents = started_agents
              /\ Len(agents) = Len(args.names)

C8_Witness ==
    /\ ~args.restart
    /\ pc = "done"
    /\ \E g, h \in Handles :
          handles[g].state = "running" /\ handles[h].state = "terminated"

\* the current cohort is that of launch k and all its agents have terminated
CohortOver(k) ==
    /\ args.restart
    /\ pc = "join"
    /\ launches = k
    /\ \A m \in 1..Len(agents) : handles[agents[m]].state = "terminated"

\* launch k has returned after exactly k - 1 cooldowns, with one agent per
\* name, in order, on the same ports as in the launch before it
Relaunched(k) ==
    /\ pc = "join"
    /\ launches = k
    /\ sleeps = k - 1
    /\ Len(agents) = Len(args.names)
    /\ \A m \in 1..Len(agents) :
          \E g \in Handles :
             /\ handles[g].cohort = k - 1
             /\ handles[g].pos = m
             /\ handles[agents[m]].cohort = k
             /\ handles[agents[m]].name = args.names[m]
             /\ handles[agents[m]].name = handles[g].name
             /\ handles[agents[m]].port = handles[g].port
             /\ handles[agents[m]].ui_port = handles[g].ui_port

\* C9: with restart enabled and no force exit, once all agents of the
\* current cohort have terminated the loop eventually relaunches the same
\* names on the same ports after one cooldown (unless the launch raises);
\* every launch is preceded by exactly one cooldown per earlier launch.
C9_RestartCycle ==
    /\ [](args.restart /\ Launching => sleeps = launches - 1)
    /\ \A k \in 1..(MaxLaunch - 1) :
          CohortOver(k) ~> (Relaunched(k + 1) \/ pc = "raised")

C9_Witness ==
    /\ Relaunched(2)
    /\ Len(args.names) = 2
    /\ args.uiport # <<>>

\* C10: force_stopped is false initially and, once true, stays true.
C10_ForceStoppedMonotonic ==
    /\ ~force_stopped
    /\ [][force_stopped => force_stopped']_vars

C10_Witness ==
    /\ force_stopped
    /\ f_calls = 2
    /\ launches = 2
    /\ pc = "done"

\* a step of on_force_exit
ForceStep == <<fpc, f_i, f_calls>>' # <<fpc, f_i, f_calls>>

\* a delivery of on_force_exit has run to the end of its loop
ForceLoopOver == fpc = "stop" /\ f_i > Len(f_list)

\* the step changes no agent object, except for stop() calls received
OnlyStopsChange ==
    /\ Len(handles') = Len(handles)
    /\ \A h \in Handles :
          [handles'[h] EXCEPT !.stops = 0] = [handles[h] EXCEPT !.stops = 0]

\* C11: a second on_force_exit in succession launches nothing and leaves
\* agents and force_stopped as the first one left them (force_stopped true);
\* all it adds is one more stop() on each handle of the cohort.
C11_ForceExitIdempotent ==
    /\ [][(ForceStep /\ f_calls >= 1) =>
             /\ force_stopped /\ force_stopped'
             /\ agents' = agents
             /\ launches' = launches
             /\ pc' = pc
             /\ OnlyStopsChange]_vars
    /\ []((f_calls = 2 /\ ForceLoopOver /\ f_prev = f_list) =>
             \A k \in 1..Len(f_list) : handles[f_list[k]].stops = 2)

C11_Witness ==
    /\ f_calls = 2
    /\ fpc = "idle"
    /\ force_stopped
    /\ Len(agents) = 2
    /\ f_prev = agents
    /\ \A k \in 1..Len(agents) : handles[agents[k]].stops = 2

\* C12: on_force_exit never assigns, extends, shrinks or reorders agents and
\* never constructs or starts an agent; agents is written only by run_cmd,
\* with the list start_agents returns.
C12_OnlyRunCmdWritesAgents ==
    [][/\ ForceStep =>
            /\ agents' = agents
            /\ Len(handles') = Len(handles)
            /\ \A h \in Handles :
                  /\ handles'[h].starts = handles[h].starts
                  /\ handles'[h].state = handles[h].state
       /\ agents' # agents =>
            /\ ~ForceStep
            /\ AtReturn
            /\ pc' \in {"join", "done"}
            /\ agents' = started_agents]_vars

C12_Witness ==
    /\ fpc = "idle"
    /\ f_calls = 1
    /\ pc = "join"
    /\ Len(agents) = 2
    /\ \A k \in 1..Len(agents) : handles[agents[k]].stops = 1

\* the --orchestrator token does not split into exactly a host and a port
Malformed == Len(Split(args.orchestrator, ":")) # 2

\* C13: with a malformed orchestrator address run_cmd raises before any
\* agent is constructed or started, in both restart modes; agents stays
\* empty and force_stopped is changed by on_force_exit alone.
C13_MalformedAddressAborts ==
    Malformed =>
        /\ pc \in {"parse", "raised"}
        /\ handles = <<>>
        /\ launches = 0
        /\ agents = <<>>
        /\ started_agents = <<>>
        /\ force_stopped <=> f_calls > 0

C13_Witness ==
    /\ Malformed
    /\ pc = "raised"
    /\ args.restart
    /\ args.orchestrator = <<"h", ":", "9", ":", "9">>

\* run_cmd has ended with an error raised inside start_agents (the errors of
\* lines 174 and 178 / 191 are raised before the first launch)
LaunchRaised == pc = "raised" /\ launches >= 1

\* C14: when the construction or the start of the agent at position k
\* raises, start_agents builds and starts no agent after k, stops none of
\* the agents before k (no rollback, no retry), and the error ends run_cmd.
C14_LaunchFailureNoRollback ==
    /\ [][(Launching /\ pc' = "raised") =>
             /\ handles' = handles
             /\ agents' = agents
             /\ started_agents' = started_agents]_vars
    /\ [][pc = "raised" =>
             /\ pc' = "raised"
             /\ UNCHANGED <<launches, sleeps, agents, started_agents, i, j>>
             /\ Len(handles') = Len(handles)
             /\ \A h \in Handles : handles'[h].starts = handles[h].starts]_vars
    /\ [](LaunchRaised =>
             /\ i <= Len(args.names)
             /\ Len(started_agents) = i - 1
             /\ \A h \in Handles :
                   handles[h].cohort = launches =>
                      /\ handles[h].pos <= i
                      /\ handles[h].pos < i =>
                            /\ started_agents[handles[h].pos] = h
                            /\ handles[h].starts = 1
                            /\ handles[h].state \in {"running", "terminated"}
                      /\ handles[h].pos = i =>
                            /\ handles[h].starts = 0
                            /\ handles[h].state = "created")

C14_Witness ==
    /\ LaunchRaised
    /\ i = 2
    /\ Len(handles) = 2
    /\ handles[1].state = "running"
    /\ handles[2].state = "created"

\* C15: a delivery of on_force_exit first sets force_stopped, then reads
\* agents once and calls stop() exactly once on each handle of that list, in
\* list order, and on no other handle; it is never blocked and joins nothing.
C15_ForceExitStopsCohortOnce ==
    /\ [](fpc # "idle" => force_stopped /\ ENABLED OnForceExit)
    /\ [][(fpc = "for" /\ ForceStep) => (f_list' = agents /\ f_i' = 1)]_vars
    /\ [][fpc = "stop" =>
             /\ f_list' = f_list
             /\ fpc' = "idle" => f_i = Len(f_list) + 1]_vars
    /\ [][(\E h \in Handles : handles'[h].stops # handles[h].stops) =>
             /\ fpc = "stop"
             /\ f_i <= Len(f_list)
             /\ f_i' = f_i + 1
             /\ handles' = [handles EXCEPT ![f_list[f_i]].stops = @ + 1]]_vars
    /\ [][ForceStep =>
             /\ pc' = pc
             /\ \A h \in Handles : handles'[h].joins = handles[h].joins]_vars
    /\ []((f_calls <= 2 /\ ForceLoopOver) =>
             \A h \in Handles :
                  handles[h].stops = Count(h, f_list) + Count(h, f_prev))

C15_Witness ==
    /\ f_calls = 1
    /\ ForceLoopOver
    /\ Len(f_list) = 2
    /\ handles[f_list[1]].stops = 1
    /\ handles[f_list[2]].stops = 1
    /\ handles[f_list[2]].state = "running"

\* every agent of the stored cohort has terminated
AgentsAllTerminated ==
    \A m \in 1..Len(agents) : handles[agents[m]].state = "terminated"

\* run_cmd is at line 184, 'All agents have stopped'
AllStoppedPoint == pc = "join" /\ j > Len(agents)

\* C16: with restart enabled the loop is at or past its 'all agents have
\* stopped' point only when every agent of the cohort has terminated, each
\* join() returned only for a terminated agent, and whatever the order of
\* the terminations, once all have terminated the loop reaches that point.
C16_AllStoppedIsConjunction ==
    /\ []((args.restart /\ (pc # "join" \/ AllStoppedPoint)) =>
             AgentsAllTerminated)
    /\ [](pc = "join" =>
             \A m \in 1..Len(agents) :
                  m < j => /\ handles[agents[m]].state = "terminated"
                           /\ handles[agents[m]].joins = 1)
    /\ (args.restart /\ pc = "join" /\ AgentsAllTerminated) ~> AllStoppedPoint

C16_Witness ==
    /\ AllStoppedPoint
    /\ Len(agents) = 2
    /\ launches = 2
    /\ ~force_stopped

\* C17: with restart enabled, when the loop condition of line 177 is
\* evaluated while force_stopped is true (on entry, or after a cooldown)
\* run_cmd leaves the loop and returns: it does not call start_agents.
C17_LoopCheckExits ==
    /\ [][(pc = "while" /\ force_stopped /\ pc' # pc) =>
             /\ pc' = "done"
             /\ launches' = launches
             /\ handles' = handles]_vars
    /\ [][pc = "done" =>
             /\ pc' = "done"
             /\ launches' = launches
             /\ Len(handles') = Len(handles)
             /\ \A h \in Handles : handles'[h].starts = handles[h].starts]_vars

C17_Witness ==
    /\ args.restart
    /\ pc = "done"
    /\ force_stopped
    /\ launches = 1
    /\ sleeps = 1

\* C18: with restart enabled, if force_stopped is true once the last join()
\* of the cohort has returned, the loop breaks at once: no cooldown, no
\* further launch, run_cmd returns.
C18_BreakAfterJoins ==
    /\ [][(AllStoppedPoint /\ force_stopped /\ pc' # pc) =>
             /\ pc' = "done"
             /\ sleeps' = sleeps
             /\ launches' = launches]_vars
    /\ [][pc = "done" => UNCHANGED <<pc, sleeps, launches, agents>>]_vars

C18_Witness ==
    /\ args.restart
    /\ pc = "done"
    /\ force_stopped
    /\ launches = 1
    /\ sleeps = 0
    /\ Len(agents) = 2
    /\ AgentsAllTerminated

\* the number of the launch whose result agents holds: the launch in
\* progress, or one that raised, has stored nothing
StoredLaunch == IF Launching \/ LaunchRaised THEN launches - 1 ELSE launches

\* C19: agents is never partially populated: it is the initial empty list
\* or the complete list a returned start_agents call built (one started
\* handle per name, in order); during a launch it still holds the previous
\* value, which in restart mode is a cohort whose agents have all terminated.
C19_CohortNeverPartial ==
    /\ agents = <<>> <=> StoredLaunch = 0
    /\ agents # <<>> =>
          /\ Len(agents) = Len(args.names)
          /\ \A m \in 1..Len(agents) :
                LET h == agents[m]
                IN  /\ handles[h].cohort = StoredLaunch
                    /\ handles[h].pos = m
                    /\ handles[h].name = args.names[m]
                    /\ handles[h].starts = 1
                    /\ handles[h].state \in {"running", "terminated"}
    /\ (args.restart /\ Launching) => AgentsAllTerminated

C19_Witness ==
    /\ Launching
    /\ launches = 2
    /\ Len(started_agents) = 1
    /\ Len(agents) = 2
    /\ fpc = "stop"

\* C20: after a launch that failed at position k agents keeps the value it
\* had before that launch; the agents the failed launch started are in no
\* stored cohort and receive no stop(): a later on_force_exit still sets
\* force_stopped and iterates the stored cohort only.
C20_FailedLaunchOrphans ==
    /\ [](LaunchRaised =>
             /\ \A m \in 1..Len(agents) :
                   handles[agents[m]].cohort = launches - 1
             /\ \A h \in Handles :
                   handles[h].cohort = launches =>
                      /\ handles[h].stops = 0
                      /\ Count(h, agents) = 0
                      /\ Count(h, f_list) = 0)
    /\ [][LaunchRaised =>
             /\ agents' = agents
             /\ f_calls' > f_calls => force_stopped'
             /\ (fpc = "for" /\ fpc' = "stop") => f_list' = agents]_vars

C20_Witness ==
    /\ LaunchRaised
    /\ launches = 2
    /\ fpc = "idle"
    /\ force_stopped
    /\ handles[agents[1]].stops >= 1
    /\ \E h \in f_live :
          /\ handles[h].cohort = 2
          /\ handles[h].state = "running"
          /\ handles[h].stops = 0

====
